---- MODULE Spec2Model ----
(***************************************************************************)
(* A model of gdelt_analysis: the ingestion loop of gdelt.py (minute       *)
(* window, fetch cache, relevance filter, two-phase reasoning call,        *)
(* analysis store) and the notification loop of cron_job.py (watermark,    *)
(* threshold filter, digest, last_sent).                                   *)
(*                                                                         *)
(* Time is counted in ticks, TicksPerSec ticks to the second, so that      *)
(* time.time() (a float) and int(time.time()) (its floor) are told apart.  *)
(* Text is a sequence of one-character strings.                            *)
(***************************************************************************)
EXTENDS Integers, Sequences, FiniteSets, TLC

VARIABLES
    now,            \* the wall clock, in ticks
    \* ---- gdelt.py: the ingestion process
    ipc,            \* where the ingestion process is
    cycle,          \* how many ingestion cycles have started
    cur,            \* _minute_stamps: cur
    end_floor,      \* _minute_stamps: end_floor
    attempt,        \* _download_gz: attempt
    resp,           \* _download_gz: resp.status_code of the last response
    exc,            \* the exception that ended the ingestion process, or None
    blob,           \* iter_gqg_minutes: blob
    lines,          \* iter_gqg_minutes: the lines of gz not yet read
    articles,       \* query_gdelt: articles
    cache,          \* CACHE_DIR: stamp -> payload
    net,            \* history: network requests issued, per stamp
    calls,          \* history: network requests of the running _download_gz call
    getlog,         \* history: per stamp, the finished _download_gz calls
    response_text,  \* send_to_openrouter: response_text
    feeds,          \* send_to_openrouter: feeds_sorted, with their ids
    docs,           \* DATA_DIR/analysis_<key>.txt: key -> text
    errors,         \* DATA_DIR/openrouter_error_<key>.json: the keys
    last_email,     \* DATA_DIR/last_email.json: last_sent, 0 when absent
    mails,          \* history: the single-recipient alerts sent, by time
    \* ---- cron_job.py: the notification process
    subs,           \* DATA_DIR/subscribers.json
    npc,            \* where the notification process is
    ncycle,         \* how many notification cycles have started
    analysis_files, \* main: analysis_files
    subscribers,    \* main: subscribers
    idx,            \* main: the position of the for loop in subscribers
    current_time,   \* main: current_time
    relevant,       \* main: relevant_impacts of the last subscriber processed
    digests,        \* history: the digests successfully sent
    \* ---- app.py and the calls made on their own
    reqs,           \* the calls on subscribers.json that are under way
    wanted,         \* history: the emails subscribed and not unsubscribed since
    start_utc,      \* _minute_stamps: start_utc
    end_utc,        \* _minute_stamps: end_utc
    yielded         \* history: the stamps _minute_stamps has yielded

vars == <<now, ipc, cycle, cur, end_floor, attempt, resp, exc, blob, lines, articles,
          cache, net, calls, getlog, response_text, feeds, docs, errors, last_email,
          mails, subs, npc, ncycle, analysis_files, subscribers, idx,
          current_time, relevant, digests, reqs, wanted, start_utc, end_utc,
          yielded>>

ingestLocals == <<ipc, cycle, cur, end_floor, attempt, resp, exc, blob, lines,
                  articles, response_text, feeds>>
history == <<net, calls, getlog>>
scoreState == <<docs, errors, last_email, mails>>
notifyVars == <<subs, npc, ncycle, analysis_files, subscribers, idx,
                current_time, relevant, digests>>
webVars == <<reqs, wanted>>
windowVars == <<start_utc, end_utc, yielded>>

(***************************************************************************)
(* Bounds of the model and constants of the program.                       *)
(***************************************************************************)
TicksPerSec == 2
LastMinutes == 1
MaxCycles == 2
NStamps == 2
MaxGets == 3
MaxTicks == 2
MaxNotify == 2
MaxReqs == 3
MaxSpan == 3
ScenarioMinutes == 3
SecPerMin == 60
retries == 2
EmailGateSec == 3600
HighLikelihood == 8
max_length == 130000
prompt_base2 == 1207
PartFrame == 31

\* an optional value: None, or the value wrapped
None == <<>>
Some(x) == <<x>>

\* int(time.time())
IntTime(t) == t \div TicksPerSec

\* the UTC minute of an instant: replace(second=0, microsecond=0)
MinuteOf(t) == t \div (TicksPerSec * SecPerMin)

(***************************************************************************)
(* Text.                                                                   *)
(***************************************************************************)
LowerChar(c) ==
    CASE c = "T" -> "t"
      [] c = "L" -> "l"
      [] c = "M" -> "m"
      [] OTHER -> c

\* str.lower()
Lower(s) == [i \in 1..Len(s) |-> LowerChar(s[i])]

\* k in s
Contains(s, k) ==
    \E i \in 0..(Len(s) - Len(k)) :
        \A j \in 1..Len(k) : s[i + j] = k[j]

RECURSIVE Join(_)
\* ' '.join(texts)
Join(texts) ==
    IF texts = <<>> THEN <<>>
    ELSE IF Len(texts) = 1 THEN texts[1]
    ELSE texts[1] \o <<" ">> \o Join(Tail(texts))

KEYWORDS == << <<"t","a","r","i","f","f">>, <<"L","L","M">> >>

(***************************************************************************)
(* The feed: what a partition may hold. A line is a record, blank, or not  *)
(* JSON.                                                                   *)
(***************************************************************************)
Blank == [kind |-> "blank"]
Malformed == [kind |-> "malformed"]
\* where a gzip stream stops before its end-of-stream marker
Truncated == [kind |-> "truncated"]

TariffRecord ==
    [kind |-> "record", lang |-> "ENGLISH", title |-> <<"T","a","r","i","f","f">>,
     quotes |-> << <<"h","i","k","e">> >>, url |-> "u1", date |-> 1]
QuoteRecord ==
    [kind |-> "record", lang |-> "ENGLISH", title |-> <<"r","a","i","n">>,
     quotes |-> << <<"a">>, <<"t","a","r","i","f","f">> >>, url |-> "u2", date |-> 2]
FrenchRecord ==
    [kind |-> "record", lang |-> "FRENCH",
     title |-> <<"T","a","r","i","f","f"," ","L","L","M">>,
     quotes |-> <<>>, url |-> "u3", date |-> 1]
RainRecord ==
    [kind |-> "record", lang |-> "ENGLISH", title |-> <<"r","a","i","n">>,
     quotes |-> <<>>, url |-> "u4", date |-> 1]

LlmRecord ==
    [kind |-> "record", lang |-> "ENGLISH", title |-> <<"L","L","M">>,
     quotes |-> <<>>, url |-> "u5", date |-> 1]

PayloadClean ==
    <<TariffRecord, Blank, FrenchRecord, RainRecord, LlmRecord, QuoteRecord>>
PayloadBroken == <<TariffRecord, Malformed, QuoteRecord>>
Payloads == {PayloadClean, PayloadBroken}

(***************************************************************************)
(* query_gdelt: the relevance filter and the article built for a record.   *)
(***************************************************************************)
QuotesText(record) == Join(record.quotes)

KeywordHit(record) ==
    \E i \in 1..Len(KEYWORDS) :
        \/ Contains(Lower(record.title), KEYWORDS[i])
        \/ Contains(Lower(QuotesText(record)), KEYWORDS[i])

\* a filter that does not look at the language
IsRelevantAnyLang(record) == KeywordHit(record)

IsRelevant(record) == record.lang = "ENGLISH" /\ KeywordHit(record)

Article(record) ==
    [title |-> record.title, description |-> QuotesText(record),
     url |-> record.url, seendate |-> record.date]

(***************************************************************************)
(* The stores, as directories: a function from the keys present.           *)
(***************************************************************************)
\* a lookup that never finds the entry
CacheHitNever(stamp) == FALSE

\* os.path.exists(cache_path)
CacheHit(stamp) == stamp \in DOMAIN cache

(***************************************************************************)
(* gdelt.py main, query_gdelt, _minute_stamps: a cycle starts.             *)
(***************************************************************************)
\* query_gdelt(last_minutes): the window of iter_gqg_minutes
query_gdelt(last_minutes) ==
    /\ ipc = "main"
    /\ cycle' = cycle + 1
    /\ cur' = MinuteOf(now - last_minutes * SecPerMin * TicksPerSec)
    /\ end_floor' = MinuteOf(now)
    /\ articles' = <<>>
    /\ ipc' = "stamps"
    /\ UNCHANGED <<now, attempt, resp, exc, blob, lines, response_text, feeds>>
    /\ UNCHANGED <<cache, scoreState, notifyVars>>

StartCycle ==
    /\ cycle < MaxCycles
    /\ query_gdelt(LastMinutes)

(***************************************************************************)
(* _minute_stamps yields cur and iter_gqg_minutes calls _download_gz, or   *)
(* the window is exhausted and query_gdelt returns.                        *)
(***************************************************************************)
\* a loop that stops one minute early
NextStampBefore ==
    /\ ipc = "stamps"
    /\ ipc' = IF cur < end_floor THEN "get" ELSE "filtered"
    /\ UNCHANGED <<now, cycle, cur, end_floor, attempt, resp, exc, blob, lines,
                   articles, response_text, feeds, cache>>
    /\ UNCHANGED <<scoreState, notifyVars>>

NextStamp ==
    /\ ipc = "stamps"
    /\ ipc' = IF cur <= end_floor THEN "get" ELSE "filtered"
    /\ UNCHANGED <<now, cycle, cur, end_floor, attempt, resp, exc, blob, lines,
                   articles, response_text, feeds, cache>>
    /\ UNCHANGED <<scoreState, notifyVars>>

(***************************************************************************)
(* _download_gz looks into the cache first.                                *)
(***************************************************************************)
\* a lookup that goes to the network whatever the cache holds
LookupNoCache ==
    /\ ipc = "get"
    /\ attempt' = 0
    /\ ipc' = "request"
    /\ UNCHANGED <<now, cycle, cur, end_floor, resp, exc, blob, lines, articles,
                   response_text, feeds, cache>>
    /\ UNCHANGED <<scoreState, notifyVars>>

Lookup ==
    /\ ipc = "get"
    /\ IF CacheHit(cur)
       THEN /\ blob' = Some(cache[cur])
            /\ ipc' = "blob"
            /\ UNCHANGED attempt
       ELSE /\ attempt' = 0
            /\ ipc' = "request"
            /\ UNCHANGED blob
    /\ UNCHANGED <<now, cycle, cur, end_floor, resp, exc, lines, articles,
                   response_text, feeds, cache>>
    /\ UNCHANGED <<scoreState, notifyVars>>

(***************************************************************************)
(* _download_gz, one pass of the retry loop: requests.get and what follows *)
(* each answer.                                                            *)
(***************************************************************************)
\* 200: the payload is written to the cache and returned
Respond200(payload) ==
    /\ ipc = "request"
    /\ resp' = 200
    /\ cache' = (cur :> payload) @@ cache
    /\ blob' = Some(payload)
    /\ ipc' = "blob"
    /\ UNCHANGED <<now, cycle, cur, end_floor, attempt, exc, lines, articles,
                   response_text, feeds>>
    /\ UNCHANGED <<scoreState, notifyVars>>

\* a 404 that is cached as an empty payload
Respond404Cached ==
    /\ ipc = "request"
    /\ resp' = 404
    /\ cache' = (cur :> <<>>) @@ cache
    /\ blob' = None
    /\ ipc' = "blob"
    /\ UNCHANGED <<now, cycle, cur, end_floor, attempt, exc, lines, articles,
                   response_text, feeds>>
    /\ UNCHANGED <<scoreState, notifyVars>>

\* 404: None is returned
Respond404 ==
    /\ ipc = "request"
    /\ resp' = 404
    /\ blob' = None
    /\ ipc' = "blob"
    /\ UNCHANGED <<now, cycle, cur, end_floor, attempt, exc, lines, articles,
                   response_text, feeds, cache>>
    /\ UNCHANGED <<scoreState, notifyVars>>

\* raise_for_status raises for the 4xx and 5xx codes
IsErrorStatus(status) == status >= 400

OtherStatuses == {204, 500}

\* a loop that waits after every attempt, the last one too
RespondOtherWaits(status) ==
    /\ ipc = "request"
    /\ resp' = status
    /\ ipc' = "backoff"
    /\ UNCHANGED <<now, cycle, cur, end_floor, attempt, exc, blob, lines, articles,
                   response_text, feeds, cache>>
    /\ UNCHANGED <<scoreState, notifyVars>>

\* any other status: time.sleep before the next attempt, or, after the last
\* attempt, out of the loop to raise_for_status
RespondOther(status) ==
    /\ ipc = "request"
    /\ resp' = status
    /\ IF attempt < retries
       THEN /\ ipc' = "backoff"
            /\ UNCHANGED <<attempt, exc, blob>>
       ELSE IF IsErrorStatus(status)
            THEN /\ exc' = "HTTPError"
                 /\ ipc' = "crashed"
                 /\ UNCHANGED <<attempt, blob>>
            ELSE /\ blob' = None
                 /\ ipc' = "blob"
                 /\ UNCHANGED <<attempt, exc>>
    /\ UNCHANGED <<now, cycle, cur, end_floor, lines, articles, response_text, feeds,
                   cache>>
    /\ UNCHANGED <<scoreState, notifyVars>>

\* time.sleep(backoff ** attempt) is over: the next pass of the for loop.
\* The clock of the model moves between the cycles only.
Backoff ==
    /\ ipc = "backoff"
    /\ attempt' = attempt + 1
    /\ ipc' = "request"
    /\ UNCHANGED <<now, cycle, cur, end_floor, resp, exc, blob, lines, articles,
                   response_text, feeds, cache>>
    /\ UNCHANGED <<scoreState, notifyVars>>

\* requests.get raises (Timeout, ConnectionError): nothing catches it
RequestRaises ==
    /\ ipc = "request"
    /\ exc' = "Timeout"
    /\ ipc' = "crashed"
    /\ UNCHANGED <<now, cycle, cur, end_floor, attempt, resp, blob, lines,
                   articles, response_text, feeds, cache>>
    /\ UNCHANGED <<scoreState, notifyVars>>

(***************************************************************************)
(* iter_gqg_minutes: the blob of a stamp, then its lines one by one, each  *)
(* record going through the filter of query_gdelt.                         *)
(***************************************************************************)
\* the locals of the returned _download_gz call are dropped here
OpenBlob ==
    /\ ipc = "blob"
    /\ IF blob = None
       THEN /\ cur' = cur + 1
            /\ ipc' = "stamps"
            /\ UNCHANGED lines
       ELSE /\ lines' = blob[1]
            /\ ipc' = "lines"
            /\ UNCHANGED cur
    /\ blob' = None
    /\ resp' = 0
    /\ attempt' = 0
    /\ UNCHANGED <<now, cycle, end_floor, exc, articles, response_text, feeds>>
    /\ UNCHANGED <<cache, scoreState, notifyVars>>

ReadLine ==
    /\ ipc = "lines"
    /\ IF lines = <<>>
       THEN /\ cur' = cur + 1
            /\ ipc' = "stamps"
            /\ UNCHANGED <<lines, articles, exc>>
       ELSE /\ lines' = Tail(lines)
            /\ UNCHANGED cur
            /\ IF Head(lines) = Blank
               THEN UNCHANGED <<ipc, articles, exc>>
               ELSE IF Head(lines) = Malformed
               THEN /\ exc' = "JSONDecodeError"
                    /\ ipc' = "crashed"
                    /\ UNCHANGED articles
               ELSE IF Head(lines) = Truncated
               THEN /\ exc' = "EOFError"
                    /\ ipc' = "crashed"
                    /\ UNCHANGED articles
               ELSE /\ articles' = IF IsRelevant(Head(lines))
                                   THEN Append(articles, Article(Head(lines)))
                                   ELSE articles
                    /\ UNCHANGED <<ipc, exc>>
    /\ UNCHANGED <<now, cycle, end_floor, attempt, resp, blob, response_text, feeds>>
    /\ UNCHANGED <<cache, scoreState, notifyVars>>

(***************************************************************************)
(* The reasoning service's answers. A phase-1 text is a sequence of words; *)
(* an analysis text either embeds a JSON object or does not.               *)
(***************************************************************************)
LowerWord(w) ==
    CASE w = "Yes" -> "yes"
      [] w = "Abort" -> "abort"
      [] OTHER -> w

HasAbort(text) ==
    \E i \in 1..Len(text) : LowerWord(text[i]) \in {"abort", "no relevant"}

HasYes(text) == \E i \in 1..Len(text) : LowerWord(text[i]) = "yes"

IsNumber(w) == w \in {"1", "2", "7"}

IntOf(w) ==
    CASE w = "1" -> 1
      [] w = "2" -> 2
      [] w = "7" -> 7

\* re.findall(r'\d+', response_text), as integers
Ids(text) ==
    LET digits == SelectSeq(text, IsNumber)
    IN  [i \in 1..Len(digits) |-> IntOf(digits[i])]

\* a range test that counts the ids from 0
RelevantIdsFromZero(text, n) == SelectSeq(Ids(text), LAMBDA id : 0 <= id /\ id < n)

\* relevant_ids of send_to_openrouter, n = len(feeds_sorted)
RelevantIds(text, n) == SelectSeq(Ids(text), LAMBDA id : 1 <= id /\ id <= n)

Phase1Texts ==
    { <<"Abort">>, <<"no relevant">>, <<"Yes", "2", "7", "1", "2">>, <<"yes", "7">>,
      <<"fine">>, <<"yes", "1", "abort">> }

AnalysisHigh ==
    [json |-> TRUE, summary |-> "tariffs",
     potential_impacts |->
        << [ticker |-> "AAPL", company |-> "Apple", likelihood |-> 9, reason |-> "r1"] >>]
AnalysisMixed ==
    [json |-> TRUE, summary |-> "chips",
     potential_impacts |->
        << [ticker |-> "TSLA", company |-> "Tesla", likelihood |-> 5, reason |-> "r2"],
           [ticker |-> "AAPL", company |-> "Apple Inc", likelihood |-> 9, reason |-> "r3"] >>]
AnalysisProse ==
    [json |-> FALSE, summary |-> "", potential_impacts |-> <<>>]
AnalysisTexts == {AnalysisHigh, AnalysisMixed, AnalysisProse}

(***************************************************************************)
(* main: the feeds of the articles found, and send_to_openrouter up to the *)
(* first request. requests.post is given no timeout: the process waits for *)
(* the answer.                                                             *)
(***************************************************************************)
\* the urls of the feed's records, and the lengths ingest_article may give
\* the full text of a url (0: no text)
Urls == {"u1", "u2"}
TextLengths == {0, 130000}

\* main: the feed of an article, full_text being the length of its text
Feed(article, full_text) ==
    [id |-> 0, title |-> article.title, description |-> article.description,
     url |-> article.url, seendate |-> article.seendate, full_text |-> full_text]

\* main keeps the articles that have a url
Feeds(found, text_of) ==
    LET kept == SelectSeq(found, LAMBDA a : a.url # "")
    IN  [i \in 1..Len(kept) |-> Feed(kept[i], text_of[kept[i].url])]

\* sorted(feeds, key=seendate, reverse=True): newest first, and stable: an
\* entry stands behind the newer ones and behind the equally new ones that
\* stood before it
feeds_sorted(list) ==
    LET Before(i) == {j \in 1..Len(list) :
                         \/ list[j].seendate > list[i].seendate
                         \/ list[j].seendate = list[i].seendate /\ j < i}
    IN  [k \in 1..Len(list) |->
            list[CHOOSE i \in 1..Len(list) : Cardinality(Before(i)) = k - 1]]

\* feed['id'] = i + 1
WithIds(list) == [i \in 1..Len(list) |-> [list[i] EXCEPT !.id = i]]

SleepTicks == LastMinutes * SecPerMin * TicksPerSec

Scored ==
    /\ ipc = "filtered"
    /\ IF articles # <<>>
       THEN /\ ipc' = "await1"
            /\ \E text_of \in [Urls -> TextLengths] :
                  feeds' = WithIds(feeds_sorted(Feeds(articles, text_of)))
            /\ UNCHANGED articles
       ELSE /\ ipc' = "sleep"
            /\ articles' = <<>>
            /\ feeds' = <<>>
    /\ UNCHANGED <<now, cycle, cur, end_floor, attempt, resp, exc, blob, lines,
                   response_text>>
    /\ UNCHANGED <<cache, scoreState, notifyVars>>

\* send_to_openrouter returns to main, which goes to sleep; the lists of the
\* call are dropped
Return ==
    /\ ipc' = "sleep"
    /\ articles' = <<>>
    /\ feeds' = <<>>
    /\ UNCHANGED exc

\* an except branch that only logs
LogError ==
    /\ UNCHANGED errors
    /\ Return

\* the except branch of send_to_openrouter: the error artifact, then return
SaveError ==
    /\ errors' = errors \cup {IntTime(now)}
    /\ Return

\* an exception no handler catches
Uncaught(name) ==
    /\ exc' = name
    /\ ipc' = "crashed"
    /\ UNCHANGED <<errors, articles, feeds>>

AwaitingReply == ipc \in {"await1", "await2"}

ErrorStatuses == {429, 500}

\* a non-2xx answer: raise_for_status raises HTTPError, a RequestException
ReplyError(status) ==
    /\ AwaitingReply
    /\ resp' = status
    /\ SaveError
    /\ UNCHANGED <<now, cycle, cur, end_floor, attempt, blob, lines, response_text>>
    /\ UNCHANGED <<cache, docs, last_email, mails, notifyVars>>

\* a 2xx answer whose body is not JSON: response.json() raises
\* requests.exceptions.JSONDecodeError, a RequestException in requests >= 2.27
\* and a plain ValueError before
ReplyNotJson ==
    /\ AwaitingReply
    /\ resp' = 200
    /\ \/ SaveError
       \/ Uncaught("ValueError")
    /\ UNCHANGED <<now, cycle, cur, end_floor, attempt, blob, lines, response_text>>
    /\ UNCHANGED <<cache, docs, last_email, mails, notifyVars>>

\* a 2xx JSON answer without choices[0].message.content
ReplyNoChoices ==
    /\ AwaitingReply
    /\ resp' = 200
    /\ Uncaught("KeyError")
    /\ UNCHANGED <<now, cycle, cur, end_floor, attempt, blob, lines, response_text>>
    /\ UNCHANGED <<cache, docs, last_email, mails, notifyVars>>

\* a parse that looks for the affirmative token before the abort token
AfterPhase1YesFirst(text, n) ==
    IF HasYes(text)
    THEN IF RelevantIds(text, n) # <<>> THEN "await2" ELSE "sleep"
    ELSE IF HasAbort(text) THEN "sleep" ELSE "await2"

\* the phase-1 text: abort, the full-text path, no valid id, or descriptions
AfterPhase1(text, n) ==
    IF HasAbort(text) THEN "sleep"
    ELSE IF HasYes(text)
         THEN IF RelevantIds(text, n) # <<>> THEN "await2" ELSE "sleep"
         ELSE "await2"

Reply1(text) ==
    /\ ipc = "await1"
    /\ resp' = 200
    /\ response_text' = text
    /\ IF AfterPhase1(text, Len(feeds)) = "await2"
       THEN /\ ipc' = "await2"
            /\ UNCHANGED <<articles, feeds, exc>>
       ELSE Return
    /\ UNCHANGED <<now, cycle, cur, end_floor, attempt, blob, lines>>
    /\ UNCHANGED <<cache, scoreState, notifyVars>>

(***************************************************************************)
(* The phase-2 prompt. Lengths are len() of the strings, in characters.    *)
(***************************************************************************)
\* relevant_feeds = [feeds_sorted[id-1] for id in relevant_ids]
relevant_feeds(text, list) ==
    LET ids == RelevantIds(text, Len(list))
    IN  [i \in 1..Len(ids) |-> list[ids[i]]]

\* len(part): the frame, the id (one digit), the title and the full text
PartLen(feed) == PartFrame + 1 + Len(feed.title) + feed.full_text

\* a budget test that lets every part in
FitsAlways(current_length, part_length) == TRUE

\* not (current_length + len(part) > max_length)
Fits(current_length, part_length) == ~(current_length + part_length > max_length)

RECURSIVE feeds_text_parts_continue(_, _)
\* a loop that passes over a part that does not fit and goes on
feeds_text_parts_continue(rest, current_length) ==
    IF rest = <<>> THEN <<>>
    ELSE IF ~Fits(current_length, PartLen(Head(rest)))
    THEN feeds_text_parts_continue(Tail(rest), current_length)
    ELSE <<[id |-> Head(rest).id, chars |-> PartLen(Head(rest))]>>
         \o feeds_text_parts_continue(Tail(rest), current_length + PartLen(Head(rest)))

RECURSIVE feeds_text_parts(_, _)
\* the parts appended until one does not fit: the id and the characters of each
feeds_text_parts(rest, current_length) ==
    IF rest = <<>> THEN <<>>
    ELSE IF ~Fits(current_length, PartLen(Head(rest))) THEN <<>>
    ELSE <<[id |-> Head(rest).id, chars |-> PartLen(Head(rest))]>>
         \o feeds_text_parts(Tail(rest), current_length + PartLen(Head(rest)))

RECURSIVE Chars(_)
\* len(''.join(parts))
Chars(parts) == IF parts = <<>> THEN 0 ELSE Head(parts).chars + Chars(Tail(parts))

\* the prompt of the phase-2 request that is waiting for its answer: the
\* full texts of the selection, or the descriptions of all the feeds
prompt2 ==
    IF HasYes(response_text)
    THEN LET parts == feeds_text_parts(relevant_feeds(response_text, feeds),
                                       prompt_base2)
         IN  [kind |-> "full_text", parts |-> parts,
              length |-> prompt_base2 + Chars(parts)]
    ELSE [kind |-> "descriptions",
          parts |-> [i \in 1..Len(feeds) |->
                        [id |-> feeds[i].id,
                         chars |-> Len(feeds[i].title) + Len(feeds[i].description)]]]

(***************************************************************************)
(* The analysis is saved under int(time.time()); process_analysis sends    *)
(* the single-recipient alert behind the one-hour gate.                    *)
(***************************************************************************)
\* a store that names the file after the hour
SaveAnalysisHourly(text) == docs' = ((IntTime(now) \div EmailGateSec) :> text) @@ docs

SaveAnalysis(text) == docs' = (IntTime(now) :> text) @@ docs

\* a gate that is always open
GateOpenAlways == TRUE

\* not (current_time - last_email_time < 3600)
GateOpen == now - last_email >= EmailGateSec * TicksPerSec

HasHighImpact(text) ==
    /\ text.json
    /\ \E i \in 1..Len(text.potential_impacts) :
          text.potential_impacts[i].likelihood >= HighLikelihood

process_analysis(text, mail_ok) ==
    IF GateOpen /\ HasHighImpact(text) /\ mail_ok
    THEN /\ last_email' = now
         /\ mails' = mails \cup {now}
    ELSE UNCHANGED <<last_email, mails>>

Reply2(text, mail_ok) ==
    /\ ipc = "await2"
    /\ resp' = 200
    /\ SaveAnalysis(text)
    /\ process_analysis(text, mail_ok)
    /\ Return
    /\ UNCHANGED <<now, cycle, cur, end_floor, attempt, blob, lines, errors,
                   response_text>>
    /\ UNCHANGED <<cache, notifyVars>>

\* asyncio.sleep(60 * 30); the next pass of the loop starts afresh
Sleep ==
    /\ ipc = "sleep"
    /\ now' = now + SleepTicks
    /\ ipc' = "main"
    /\ resp' = 0
    /\ response_text' = <<>>
    /\ UNCHANGED <<cycle, cur, end_floor, attempt, exc, blob, lines, articles, feeds>>
    /\ UNCHANGED <<cache, scoreState, notifyVars>>

(***************************************************************************)
(* The ingestion process alone: python gdelt.py.                           *)
(***************************************************************************)
StartTime == (EmailGateSec + LastMinutes * SecPerMin) * TicksPerSec

InitNotifyIdle ==
    /\ subs = <<>>
    /\ npc = "off"
    /\ ncycle = 0
    /\ analysis_files = <<>>
    /\ subscribers = <<>>
    /\ idx = 0
    /\ current_time = 0
    /\ relevant = <<>>
    /\ digests = {}

Init ==
    /\ now = StartTime
    /\ ipc = "main"
    /\ cycle = 0
    /\ cur = 0
    /\ end_floor = 0
    /\ attempt = 0
    /\ resp = 0
    /\ exc = "none"
    /\ blob = None
    /\ lines = <<>>
    /\ articles = <<>>
    /\ cache = <<>>
    /\ net = <<>>
    /\ calls = 0
    /\ getlog = <<>>
    /\ response_text = <<>>
    /\ feeds = <<>>
    /\ reqs = <<>>
    /\ wanted = {}
    /\ start_utc = 0
    /\ end_utc = 0
    /\ yielded = <<>>
    /\ docs = <<>>
    /\ errors = {}
    /\ last_email = 0
    /\ mails = {}
    /\ InitNotifyIdle

Fetch ==
    \/ NextStamp
    \/ Lookup
    \/ \E payload \in Payloads : Respond200(payload)
    \/ Respond404
    \/ \E status \in OtherStatuses : RespondOther(status)
    \/ Backoff
    \/ RequestRaises
    \/ OpenBlob
    \/ ReadLine

Reason ==
    \/ Scored
    \/ \E status \in ErrorStatuses : ReplyError(status)
    \/ ReplyNotJson
    \/ ReplyNoChoices
    \/ \E text \in Phase1Texts : Reply1(text)
    \/ \E text \in AnalysisTexts, mail_ok \in BOOLEAN : Reply2(text, mail_ok)

Next ==
    /\ \/ StartCycle
       \/ Fetch
       \/ Reason
       \/ Sleep
    /\ UNCHANGED <<history, webVars, windowVars>>

Spec == Init /\ [][Next]_vars

(***************************************************************************)
(* _download_gz on its own: a caller that asks for stamps one call after   *)
(* the other and catches what a call raises. The history variables count   *)
(* the requests that go out and log how each call ended.                   *)
(***************************************************************************)
Count(f, k) == IF k \in DOMAIN f THEN f[k] ELSE 0

Log(stamp) == IF stamp \in DOMAIN getlog THEN getlog[stamp] ELSE <<>>

RECURSIVE Finished(_)
\* the number of calls logged for the stamps of S
Finished(S) ==
    IF S = {} THEN 0
    ELSE LET stamp == CHOOSE x \in S : TRUE
         IN  Len(getlog[stamp]) + Finished(S \ {stamp})

CallGet(stamp) ==
    /\ ipc = "idle"
    /\ Finished(DOMAIN getlog) < MaxGets
    /\ cur' = stamp
    /\ ipc' = "get"
    /\ UNCHANGED <<now, cycle, end_floor, attempt, resp, exc, blob, lines,
                   articles, response_text, feeds>>
    /\ UNCHANGED <<cache, scoreState, notifyVars>>

\* the call returned its blob or None
ReturnGet ==
    /\ ipc = "blob"
    /\ ipc' = "idle"
    /\ blob' = None
    /\ resp' = 0
    /\ attempt' = 0
    /\ UNCHANGED <<now, cycle, cur, end_floor, exc, lines, articles, response_text, feeds>>
    /\ UNCHANGED <<cache, scoreState, notifyVars>>

\* the call raised
CatchGet ==
    /\ ipc = "crashed"
    /\ ipc' = "idle"
    /\ exc' = "none"
    /\ resp' = 0
    /\ attempt' = 0
    /\ UNCHANGED <<now, cycle, cur, end_floor, blob, lines, articles, response_text, feeds>>
    /\ UNCHANGED <<cache, scoreState, notifyVars>>

\* every step taken from "request" is one requests.get; a call ends when it
\* returns ("blob") or raises ("crashed")
Track ==
    /\ net' = IF ipc = "request" THEN (cur :> (Count(net, cur) + 1)) @@ net ELSE net
    /\ calls' = IF ipc = "get" THEN 0
                ELSE IF ipc = "request" THEN calls + 1
                ELSE calls
    /\ getlog' =
          IF ipc \in {"get", "request"} /\ ipc' \in {"blob", "crashed"}
          THEN (cur :> Append(Log(cur),
                   [calls  |-> calls',
                    result |-> IF ipc' = "crashed" THEN "raised"
                               ELSE IF blob' = None THEN "absent"
                               ELSE IF ipc = "get" THEN "cache"
                               ELSE "payload",
                    value  |-> blob'])) @@ getlog
          ELSE getlog

InitGet ==
    /\ now = StartTime
    /\ ipc = "idle"
    /\ cycle = 0
    /\ cur = 0
    /\ end_floor = 0
    /\ attempt = 0
    /\ resp = 0
    /\ exc = "none"
    /\ blob = None
    /\ lines = <<>>
    /\ articles = <<>>
    /\ cache = <<>>
    /\ net = <<>>
    /\ calls = 0
    /\ getlog = <<>>
    /\ response_text = <<>>
    /\ feeds = <<>>
    /\ reqs = <<>>
    /\ wanted = {}
    /\ start_utc = 0
    /\ end_utc = 0
    /\ yielded = <<>>
    /\ docs = <<>>
    /\ errors = {}
    /\ last_email = 0
    /\ mails = {}
    /\ InitNotifyIdle

NextGet ==
    /\ \/ \E stamp \in 1..NStamps : CallGet(stamp)
       \/ Lookup
       \/ \E payload \in Payloads : Respond200(payload)
       \/ Respond404
       \/ \E status \in OtherStatuses : RespondOther(status)
       \/ Backoff
       \/ RequestRaises
       \/ ReturnGet
       \/ CatchGet
    /\ Track
    /\ UNCHANGED <<webVars, windowVars>>

SpecGet == InitGet /\ [][NextGet]_vars

(***************************************************************************)
(* The fetch cache.                                                        *)
(***************************************************************************)
\* C4, as claimed: for any stamp, two calls of get(stamp) in sequence make
\* exactly one network call in total, and the second call is served from the
\* cache without network access.
C4_TwoGetsOneRequest ==
    \A stamp \in DOMAIN getlog :
        Len(getlog[stamp]) >= 2 =>
            /\ getlog[stamp][1].calls + getlog[stamp][2].calls = 1
            /\ getlog[stamp][2].result = "cache"

\* C4, amended: for a stamp whose first get returned a payload, the second
\* get makes no network call and returns the stored payload from the cache,
\* so that the two calls make the network calls of the first one only.
C4_SecondGetFromCache ==
    \A stamp \in DOMAIN getlog :
        (Len(getlog[stamp]) >= 2 /\ getlog[stamp][1].result = "payload") =>
            /\ getlog[stamp][2].calls = 0
            /\ getlog[stamp][2].result = "cache"
            /\ getlog[stamp][2].value = getlog[stamp][1].value
            /\ (Len(getlog[stamp]) = 2 => net[stamp] = getlog[stamp][1].calls)

C4_Witness ==
    \E stamp \in DOMAIN getlog :
        /\ Len(getlog[stamp]) >= 2
        /\ getlog[stamp][1] = [calls |-> 1, result |-> "payload",
                               value |-> Some(PayloadClean)]
        /\ net[stamp] = 1

\* C5: once a cache entry is written for a stamp, no later step requests the
\* stamp from the network or writes the entry again: the entry stays and its
\* payload is the same in every later state.
C5_EntryWrittenOnce ==
    [][\A stamp \in DOMAIN cache :
          /\ stamp \in DOMAIN cache'
          /\ cache'[stamp] = cache[stamp]
          /\ Count(net', stamp) = Count(net, stamp)]_vars

C5_Witness ==
    \E stamp \in DOMAIN cache :
        /\ Len(Log(stamp)) >= 3
        /\ Log(stamp)[1].result = "absent"
        /\ Log(stamp)[2].result = "payload"
        /\ Log(stamp)[3].result = "cache"

\* C6: when the upstream answers 404, _download_gz returns None at once,
\* writes no cache entry and raises nothing, and iter_gqg_minutes goes on to
\* the next stamp of the window.
C6_NotFoundIsSkipped ==
    [][/\ (ipc = "request" /\ resp' = 404) =>
            /\ ipc' = "blob"
            /\ blob' = None
            /\ cache' = cache
            /\ exc' = "none"
       /\ (ipc = "blob" /\ resp = 404) =>
            /\ ipc' = "stamps"
            /\ cur' = cur + 1
            /\ cur \notin DOMAIN cache'
            /\ articles' = articles
       /\ (ipc = "stamps" /\ cur <= end_floor) => ipc' = "get"]_vars

C6_Witness ==
    /\ ipc = "blob"
    /\ resp = 404
    /\ blob = None
    /\ cur < end_floor
    /\ cur \notin DOMAIN cache

\* C7, as claimed: a fetch that fails on every attempt affects its stamp
\* only: _download_gz comes back without a payload, the caller skips the stamp
\* and the rest of the window is still fetched and filtered.
C7_FailedStampIsSkipped ==
    [][(ipc = "request" /\ attempt = retries /\ resp' = 500) =>
            /\ ipc' = "blob"
            /\ blob' = None
            /\ articles' = articles]_vars

\* C8, as claimed: a request that times out is tried again, and the fetch
\* fails for the stamp only when the attempt count is reached.
C8_TimeoutIsRetried ==
    (ipc = "crashed" /\ exc = "Timeout") => attempt = retries

\* C10, as claimed: no fetch failure, malformed feed line, reasoning failure,
\* malformed reasoning answer or delivery failure ends a loop: the ingestion
\* process and the notification process are never terminated.
C10_LoopsNeverEnd ==
    /\ ipc # "crashed"
    /\ npc # "crashed"

(***************************************************************************)
(* cron_job.py: the notification process, beside an ingestion process that *)
(* saves analyses and a clock that ticks.                                  *)
(***************************************************************************)
Subscriber(email, threshold) ==
    [email |-> email, threshold |-> threshold, frequency |-> 1, last_sent |-> 0]

\* what subscribers.json may hold when the notification process starts
InitialStores ==
    { << Subscriber("a", 5) >>,
      << Subscriber("a", 9), Subscriber("b", 5) >>,
      << Subscriber("a", 5), Subscriber("a", 9) >> }

RECURSIVE NewestFirst(_)
\* the listing of analysis_*.txt, sorted by modification time, newest first
NewestFirst(keys) ==
    IF keys = {} THEN <<>>
    ELSE LET newest == CHOOSE k \in keys : \A other \in keys : other <= k
         IN  <<newest>> \o NewestFirst(keys \ {newest})

\* a watermark that takes the file at the watermark too
SelectedFrom(last_sent_time, file_timestamp) ==
    last_sent_time = 0 \/ file_timestamp * TicksPerSec >= last_sent_time

\* collect_alert_impacts: last_sent_time == 0 or file_timestamp > last_sent_time
Selected(last_sent_time, file_timestamp) ==
    last_sent_time = 0 \/ file_timestamp * TicksPerSec > last_sent_time

\* impact.copy() with the file's timestamp and summary
Tagged(impact, file_timestamp, summary) ==
    [ticker |-> impact.ticker, company |-> impact.company,
     likelihood |-> impact.likelihood, reason |-> impact.reason,
     file_timestamp |-> file_timestamp, summary |-> summary]

\* a filter that keeps the impacts strictly above the threshold
FileImpactsAbove(key, threshold) ==
    IF docs[key].json
    THEN LET kept == SelectSeq(docs[key].potential_impacts,
                               LAMBDA impact : impact.likelihood > threshold)
         IN  [i \in 1..Len(kept) |-> Tagged(kept[i], key, docs[key].summary)]
    ELSE <<>>

\* the impacts of one analysis file at or above the threshold; a file that
\* does not parse raises inside the try and gives nothing
FileImpacts(key, threshold) ==
    IF docs[key].json
    THEN LET kept == SelectSeq(docs[key].potential_impacts,
                               LAMBDA impact : impact.likelihood >= threshold)
         IN  [i \in 1..Len(kept) |-> Tagged(kept[i], key, docs[key].summary)]
    ELSE <<>>

RECURSIVE collect_alert_impacts(_, _)
collect_alert_impacts(subscriber, files) ==
    IF files = <<>> THEN <<>>
    ELSE (IF Selected(subscriber.last_sent, Head(files))
          THEN FileImpacts(Head(files), subscriber.threshold)
          ELSE <<>>)
         \o collect_alert_impacts(subscriber, Tail(files))

RECURSIVE deduplicate_keep_last(_)
\* the last impact of every (ticker, likelihood)
deduplicate_keep_last(impacts) ==
    IF impacts = <<>> THEN <<>>
    ELSE LET rest == deduplicate_keep_last(Tail(impacts))
         IN  IF \E i \in 1..Len(rest) :
                    /\ rest[i].ticker = Head(impacts).ticker
                    /\ rest[i].likelihood = Head(impacts).likelihood
             THEN rest
             ELSE <<Head(impacts)>> \o rest

RECURSIVE deduplicate_impacts(_)
\* the first impact of every (ticker, likelihood)
deduplicate_impacts(impacts) ==
    IF impacts = <<>> THEN <<>>
    ELSE LET rest == deduplicate_impacts(SubSeq(impacts, 1, Len(impacts) - 1))
             last == impacts[Len(impacts)]
         IN  IF \E i \in 1..Len(rest) :
                    /\ rest[i].ticker = last.ticker
                    /\ rest[i].likelihood = last.likelihood
             THEN rest
             ELSE Append(rest, last)

\* an update that writes the other records back as never sent
update_last_sent_only(email, timestamp) ==
    subs' = [i \in DOMAIN subs |->
                [subs[i] EXCEPT !.last_sent =
                    IF subs[i].email = email THEN timestamp ELSE 0]]

\* update_last_sent: every record of the file with that email
update_last_sent(email, timestamp) ==
    subs' = [i \in DOMAIN subs |->
                IF subs[i].email = email
                THEN [subs[i] EXCEPT !.last_sent = timestamp]
                ELSE subs[i]]

\* a loop that moves the watermark whenever there was something to send
AdvancesUnsent(impacts, sent) == impacts # <<>>

\* main: last_sent moves when there are impacts and the send succeeded
Advances(impacts, sent) == impacts # <<>> /\ sent

\* the ingestion process saves an analysis; its cycles are a sleep apart
WriteAnalysis(text) ==
    /\ \A key \in DOMAIN docs : IntTime(now) - key >= LastMinutes * SecPerMin
    /\ SaveAnalysis(text)
    /\ UNCHANGED <<now, errors, last_email, mails>>
    /\ UNCHANGED <<ingestLocals, cache, notifyVars>>

Tick ==
    /\ (now - StartTime) % (SecPerMin * TicksPerSec) < MaxTicks
    /\ now' = now + 1
    /\ UNCHANGED <<ingestLocals, cache, scoreState, notifyVars>>

\* glob.glob and the sort
Glob ==
    /\ npc = "idle"
    /\ ncycle < MaxNotify
    /\ ncycle' = ncycle + 1
    /\ analysis_files' = NewestFirst(DOMAIN docs)
    /\ npc' = IF DOMAIN docs = {} THEN "sleep" ELSE "load"
    /\ UNCHANGED <<subs, subscribers, idx, current_time, relevant, digests>>
    /\ UNCHANGED <<now, ingestLocals, cache, scoreState>>

\* get_subscribers and time.time()
Load ==
    /\ npc = "load"
    /\ subscribers' = subs
    /\ current_time' = now
    /\ idx' = 1
    /\ npc' = "loop"
    /\ UNCHANGED <<subs, ncycle, analysis_files, relevant, digests>>
    /\ UNCHANGED <<now, ingestLocals, cache, scoreState>>

\* a for loop that a failed delivery ends
ProcessOrBreak(sent) ==
    /\ npc = "loop"
    /\ idx <= Len(subscribers)
    /\ LET subscriber == subscribers[idx]
           impacts == collect_alert_impacts(subscriber, analysis_files)
       IN  /\ relevant' = impacts
           /\ IF Advances(impacts, sent)
              THEN update_last_sent(subscriber.email, current_time)
              ELSE UNCHANGED subs
           /\ IF impacts # <<>> /\ sent
              THEN digests' = digests \cup
                       {[email |-> subscriber.email, time |-> current_time,
                         threshold |-> subscriber.threshold,
                         impacts |-> deduplicate_impacts(impacts)]}
              ELSE UNCHANGED digests
           /\ idx' = IF impacts # <<>> /\ ~sent THEN Len(subscribers) + 1 ELSE idx + 1
    /\ UNCHANGED <<npc, ncycle, analysis_files, subscribers, current_time>>
    /\ UNCHANGED <<now, ingestLocals, cache, scoreState>>

\* one pass of the for loop: collect, send, update
Process(sent) ==
    /\ npc = "loop"
    /\ idx <= Len(subscribers)
    /\ LET subscriber == subscribers[idx]
           impacts == collect_alert_impacts(subscriber, analysis_files)
       IN  /\ relevant' = impacts
           /\ IF Advances(impacts, sent)
              THEN update_last_sent(subscriber.email, current_time)
              ELSE UNCHANGED subs
           /\ IF impacts # <<>> /\ sent
              THEN digests' = digests \cup
                       {[email |-> subscriber.email, time |-> current_time,
                         threshold |-> subscriber.threshold,
                         impacts |-> deduplicate_impacts(impacts)]}
              ELSE UNCHANGED digests
    /\ idx' = idx + 1
    /\ UNCHANGED <<npc, ncycle, analysis_files, subscribers, current_time>>
    /\ UNCHANGED <<now, ingestLocals, cache, scoreState>>

\* send_consolidated_alert raises before anything is sent: the except of
\* the for loop prints the error and goes on with the next subscriber
ProcessRaises ==
    /\ npc = "loop"
    /\ idx <= Len(subscribers)
    /\ collect_alert_impacts(subscribers[idx], analysis_files) # <<>>
    /\ relevant' = collect_alert_impacts(subscribers[idx], analysis_files)
    /\ idx' = idx + 1
    /\ UNCHANGED <<subs, digests, npc, ncycle, analysis_files, subscribers,
                   current_time>>
    /\ UNCHANGED <<now, ingestLocals, cache, scoreState>>

\* the for loop is over
EndLoop ==
    /\ npc = "loop"
    /\ idx > Len(subscribers)
    /\ npc' = "sleep"
    /\ UNCHANGED <<subs, ncycle, analysis_files, subscribers, idx, current_time,
                   relevant, digests>>
    /\ UNCHANGED <<now, ingestLocals, cache, scoreState>>

\* time.sleep(60)
NotifySleep ==
    /\ npc = "sleep"
    /\ now' = now + SecPerMin * TicksPerSec
    /\ npc' = "idle"
    /\ UNCHANGED <<subs, ncycle, analysis_files, subscribers, idx, current_time,
                   relevant, digests>>
    /\ UNCHANGED <<ingestLocals, cache, scoreState>>

InitAlert ==
    /\ now = StartTime
    /\ ipc = "off"
    /\ cycle = 0
    /\ cur = 0
    /\ end_floor = 0
    /\ attempt = 0
    /\ resp = 0
    /\ exc = "none"
    /\ blob = None
    /\ lines = <<>>
    /\ articles = <<>>
    /\ cache = <<>>
    /\ net = <<>>
    /\ calls = 0
    /\ getlog = <<>>
    /\ response_text = <<>>
    /\ feeds = <<>>
    /\ reqs = <<>>
    /\ wanted = {}
    /\ start_utc = 0
    /\ end_utc = 0
    /\ yielded = <<>>
    /\ docs = <<>>
    /\ errors = {}
    /\ last_email = 0
    /\ mails = {}
    /\ subs \in InitialStores
    /\ npc = "idle"
    /\ ncycle = 0
    /\ analysis_files = <<>>
    /\ subscribers = <<>>
    /\ idx = 0
    /\ current_time = 0
    /\ relevant = <<>>
    /\ digests = {}

Notify ==
    \/ Glob
    \/ Load
    \/ \E sent \in BOOLEAN : Process(sent)
    \/ ProcessRaises
    \/ EndLoop
    \/ NotifySleep

NextAlert ==
    /\ \/ \E text \in AnalysisTexts : WriteAnalysis(text)
       \/ Tick
       \/ Notify
    /\ UNCHANGED <<history, webVars, windowVars>>

SpecAlert == InitAlert /\ [][NextAlert]_vars

(***************************************************************************)
(* Claims about the notification loop.                                     *)
(***************************************************************************)
\* the (ticker, likelihood) of the impact was in a digest sent to the email
Delivered(email, impact) ==
    \E d \in digests :
        /\ d.email = email
        /\ \E m \in 1..Len(d.impacts) :
              /\ d.impacts[m].ticker = impact.ticker
              /\ d.impacts[m].likelihood = impact.likelihood

UniqueEmail(i) == \A j \in DOMAIN subs : subs[j].email = subs[i].email => j = i

\* C1: under every interleaving of the ingestion and the notification
\* process, once a subscriber's last_sent is past the creation time of a
\* saved analysis, every impact of that analysis at or above the
\* subscriber's threshold was delivered to the subscriber in some digest,
\* up to (ticker, likelihood).
C1_NoImpactDropped ==
    \A i \in DOMAIN subs : \A key \in DOMAIN docs :
        ( /\ UniqueEmail(i)
          /\ subs[i].last_sent # 0
          /\ subs[i].last_sent > key * TicksPerSec
          /\ docs[key].json )
        => \A j \in 1..Len(docs[key].potential_impacts) :
              docs[key].potential_impacts[j].likelihood >= subs[i].threshold
              => Delivered(subs[i].email, docs[key].potential_impacts[j])

\* C2: a step changes the stored last_sent only when it is the loop's pass
\* for a subscriber for whom impacts were collected and a digest was sent
\* to that subscriber's email in that pass, and then only the records of
\* that email change, their last_sent becoming the cycle's current_time;
\* a failed send or an empty collection leaves the store as it was.
C2_LastSentOnlyAfterSend ==
    [][ subs' # subs =>
          /\ npc = "loop"
          /\ idx <= Len(subscribers)
          /\ relevant' # <<>>
          /\ \E d \in digests' \ digests :
                /\ d.email = subscribers[idx].email
                /\ d.time = current_time
          /\ \A i \in DOMAIN subs :
                IF subs[i].email = subscribers[idx].email
                THEN subs'[i] = [subs[i] EXCEPT !.last_sent = current_time]
                ELSE subs'[i] = subs[i] ]_vars

\* a pass that collected impacts, whose send failed, and left last_sent
\* at its previous value
C2_Witness ==
    /\ npc = "loop"
    /\ idx > 1
    /\ relevant # <<>>
    /\ \A d \in digests :
          d.email = subscribers[idx - 1].email => d.time # current_time
    /\ \A i \in DOMAIN subs :
          subs[i].email = subscribers[idx - 1].email
              => subs[i].last_sent = subscribers[idx - 1].last_sent

\* the impact of the listed file is among the collected impacts
Offered(key, impact) ==
    \E m \in 1..Len(relevant) :
        relevant[m] = Tagged(impact, key, docs[key].summary)

\* C3: after the impacts are collected for a subscriber, every impact at
\* or above the threshold of every listed analysis is collected when the
\* subscriber's last_sent is 0, and when last_sent is T # 0 it is collected
\* exactly if the analysis' creation time is strictly greater than T;
\* nothing else is collected.
C3_WatermarkSelection ==
    (npc = "loop" /\ idx > 1) =>
        LET subscriber == subscribers[idx - 1]
            T == subscriber.last_sent
        IN  /\ \A n \in 1..Len(analysis_files) :
                  LET key == analysis_files[n]
                  IN  docs[key].json =>
                        \A j \in 1..Len(docs[key].potential_impacts) :
                           LET impact == docs[key].potential_impacts[j]
                           IN  impact.likelihood >= subscriber.threshold =>
                                 ( Offered(key, impact) <=>
                                     (T = 0 \/ key * TicksPerSec > T) )
            /\ \A m \in 1..Len(relevant) :
                  /\ relevant[m].likelihood >= subscriber.threshold
                  /\ \E n \in 1..Len(analysis_files) :
                        /\ analysis_files[n] = relevant[m].file_timestamp
                        /\ T = 0 \/ analysis_files[n] * TicksPerSec > T

\* a subscriber with a watermark T # 0, a listed analysis at or before T
\* that is left out and a listed analysis after T that is collected
C3_Witness ==
    /\ npc = "loop"
    /\ idx > 1
    /\ subscribers[idx - 1].last_sent # 0
    /\ relevant # <<>>
    /\ \E n \in 1..Len(analysis_files) :
          /\ docs[analysis_files[n]].json
          /\ analysis_files[n] * TicksPerSec <= subscribers[idx - 1].last_sent
          /\ \E j \in 1..Len(docs[analysis_files[n]].potential_impacts) :
                docs[analysis_files[n]].potential_impacts[j].likelihood
                    >= subscribers[idx - 1].threshold

(***************************************************************************)
(* The ingestion loop with what its scheduling guarantees: the process     *)
(* takes its own steps, and requests.get, called with timeout=30, comes    *)
(* back with a response or raises. requests.post is called without a       *)
(* timeout, so nothing makes an answer of the reasoning service arrive.    *)
(***************************************************************************)
Runs ==
    /\ \/ StartCycle
       \/ NextStamp
       \/ Lookup
       \/ \E payload \in Payloads : Respond200(payload)
       \/ Respond404
       \/ \E status \in OtherStatuses : RespondOther(status)
       \/ Backoff
       \/ RequestRaises
       \/ OpenBlob
       \/ ReadLine
       \/ Scored
       \/ Sleep
    /\ UNCHANGED <<history, webVars, windowVars>>

LiveSpec == Init /\ [][Next]_vars /\ WF_vars(Runs)

\* C9: every call of the reasoning service ends: a process that waits for
\* the answer of a call is, some time later, no longer waiting for it.
C9_ReasoningCallEnds == AwaitingReply ~> ~AwaitingReply

(***************************************************************************)
(* Claims about the two-phase reasoning call.                              *)
(***************************************************************************)
\* C11: on the full-text path the prompt of the phase-2 request is never
\* longer than the budget max_length (130000, counted as len() counts), its
\* length is the base prompt plus the included parts, and every included
\* part is the whole block of a selected article; a selected article that is
\* not included contributes nothing.
C11_PromptWithinBudget ==
    (ipc = "await2" /\ HasYes(response_text)) =>
        /\ prompt2.length <= max_length
        /\ prompt2.length = prompt_base2 + Chars(prompt2.parts)
        /\ Len(prompt2.parts) <= Len(relevant_feeds(response_text, feeds))
        /\ \A i \in 1..Len(prompt2.parts) :
              LET feed == relevant_feeds(response_text, feeds)[i]
              IN  /\ prompt2.parts[i].id = feed.id
                  /\ prompt2.parts[i].chars =
                        PartFrame + 1 + Len(feed.title) + feed.full_text

\* a phase-2 request on the full-text path with one selected article in
\* the prompt and a later one left out by the budget
C11_Witness ==
    /\ ipc = "await2"
    /\ HasYes(response_text)
    /\ Len(prompt2.parts) >= 1
    /\ Len(prompt2.parts) < Len(relevant_feeds(response_text, feeds))

\* C12: when the phase-1 response holds an abort or no-relevance token, the
\* cycle ends there: no phase-2 request is issued, no analysis and no error
\* artifact is written, also when the response holds an affirmative token
\* and article ids.
C12_AbortEndsCycle ==
    [][ ( /\ ipc = "await1"
          /\ response_text' # <<>>
          /\ HasAbort(response_text') )
        => ( /\ ipc' = "sleep"
             /\ docs' = docs
             /\ errors' = errors
             /\ mails' = mails ) ]_vars

\* a cycle ended by a response that holds abort, yes and an id
C12_Witness ==
    /\ ipc = "sleep"
    /\ HasAbort(response_text)
    /\ HasYes(response_text)
    /\ Ids(response_text) # <<>>
    /\ docs = <<>>

\* the positions of the id tokens of the text that are in 1..n
ValidTokens(text, n) ==
    {p \in 1..Len(text) : IsNumber(text[p]) /\ IntOf(text[p]) \in 1..n}

\* the k-th of these positions, in the order of appearance
TokenAt(text, n, k) ==
    CHOOSE p \in ValidTokens(text, n) :
        Cardinality({q \in ValidTokens(text, n) : q <= p}) = k

\* C13: when the phase-1 response holds an affirmative token, the phase-2
\* selection is the sequence of the id tokens of the response that are in
\* 1..N, in their order of appearance (ids out of the range are left out),
\* and each selected entry is the candidate that was given that id in the
\* phase-1 prompt.
C13_SelectionInOrder ==
    (ipc = "await2" /\ HasYes(response_text)) =>
        LET N == Len(feeds)
            selection == relevant_feeds(response_text, feeds)
        IN  /\ Len(selection) = Cardinality(ValidTokens(response_text, N))
            /\ \A k \in 1..Len(selection) :
                  /\ selection[k].id = IntOf(response_text[TokenAt(response_text, N, k)])
                  /\ \E j \in 1..N : feeds[j] = selection[k] /\ feeds[j].id = j

\* C13, with the ids clamped: when the phase-1 response holds an
\* affirmative token, the phase-2 selection has one entry for every id
\* token of the response, in the order of appearance, an id below 1 taken
\* as 1 and an id above N taken as N, and each entry is the candidate that
\* was given that id in the phase-1 prompt.
C13_SelectionClamped ==
    (ipc = "await2" /\ HasYes(response_text)) =>
        LET N == Len(feeds)
            ids == Ids(response_text)
            Clamp(id) == IF id < 1 THEN 1 ELSE IF id > N THEN N ELSE id
            selection == relevant_feeds(response_text, feeds)
        IN  /\ Len(selection) = Len(ids)
            /\ \A k \in 1..Len(selection) : selection[k] = feeds[Clamp(ids[k])]

\* a selection of two candidates or more in an order that is not the order
\* of the ids, from a response that also names an id out of the range
C13_Witness ==
    /\ ipc = "await2"
    /\ HasYes(response_text)
    /\ Len(relevant_feeds(response_text, feeds)) >= 2
    /\ relevant_feeds(response_text, feeds)[1].id
          > relevant_feeds(response_text, feeds)[2].id
    /\ Len(relevant_feeds(response_text, feeds)) < Len(Ids(response_text))

\* C14: whenever the phase-1 call succeeds and its response holds no abort
\* or no-relevance token, a phase-2 request is issued, with the selected
\* articles when an affirmative token is present and with the descriptions
\* of every candidate otherwise, also when no valid id can be extracted
\* from an affirmative response.
C14_Phase2AlwaysIssued ==
    [][ ( /\ ipc = "await1"
          /\ resp' = 200
          /\ response_text' # <<>>
          /\ ~HasAbort(response_text') )
        => ( /\ ipc' = "await2"
             /\ prompt2'.kind = IF HasYes(response_text')
                                THEN "full_text" ELSE "descriptions" ) ]_vars

\* C15: a non-success response of the reasoning service, at phase 1 or at
\* phase 2, makes send_to_openrouter persist an error artifact, write no
\* analysis and return normally to main, which goes on to its sleep.
C15_ErrorResponseIsLogged ==
    [][ (AwaitingReply /\ resp' >= 400)
        => ( /\ IntTime(now) \in errors'
             /\ docs' = docs
             /\ ipc' = "sleep"
             /\ exc' = "none" ) ]_vars

\* a phase-2 request answered with an error status
C15_Witness ==
    /\ ipc = "sleep"
    /\ resp \in ErrorStatuses
    /\ response_text # <<>>
    /\ errors # {}
    /\ docs = <<>>

\* C16: when the phase-2 response is a success and its text holds no JSON
\* object that parses, an error artifact is persisted and no analysis is
\* saved.
C16_UnparseableIsError ==
    [][ \A text \in AnalysisTexts, mail_ok \in BOOLEAN :
          (~text.json /\ Reply2(text, mail_ok))
          => (errors' # errors /\ docs' = docs) ]_vars

\* C17: the saved analyses are append-only: a step never removes a saved
\* analysis nor changes its text, so no later analysis is saved under the
\* key of an earlier one.
C17_AnalysesAppendOnly ==
    [][ \A key \in DOMAIN docs :
          key \in DOMAIN docs' /\ docs'[key] = docs[key] ]_vars

\* two analyses saved by two cycles
C17_Witness == Cardinality(DOMAIN docs) >= 2

(***************************************************************************)
(* Claims about the digest.                                                *)
(***************************************************************************)
\* the digest sent in the pass of the loop that has just ended
SentInPass(d) ==
    /\ d.email = subscribers[idx - 1].email
    /\ d.threshold = subscribers[idx - 1].threshold
    /\ d.time = current_time

SamePair(a, b) == a.ticker = b.ticker /\ a.likelihood = b.likelihood

\* C18: the impacts of a digest hold every (ticker, likelihood) at most
\* once, they hold every pair of the impacts collected for the subscriber,
\* and the entry kept for a pair is its first occurrence in the collected
\* list (files in the order of the listing, then the impacts of a file in
\* their order), with the reason and the company of that occurrence.
C18_DedupKeepsFirst ==
    (npc = "loop" /\ idx > 1) =>
        \A d \in digests : SentInPass(d) =>
            /\ \A m, n \in 1..Len(d.impacts) :
                  SamePair(d.impacts[m], d.impacts[n]) => m = n
            /\ \A i \in 1..Len(relevant) :
                  \E m \in 1..Len(d.impacts) : SamePair(d.impacts[m], relevant[i])
            /\ \A m \in 1..Len(d.impacts) :
                  \E i \in 1..Len(relevant) :
                      /\ d.impacts[m] = relevant[i]
                      /\ \A j \in 1..(i - 1) : ~SamePair(relevant[j], relevant[i])

\* a digest in which two collected impacts of one pair, with different
\* reasons, became one entry
C18_Witness ==
    /\ npc = "loop"
    /\ idx > 1
    /\ \E d \in digests :
          /\ SentInPass(d)
          /\ Len(d.impacts) < Len(relevant)
          /\ \E i, j \in 1..Len(relevant) :
                /\ i < j
                /\ SamePair(relevant[i], relevant[j])
                /\ relevant[i].reason # relevant[j].reason

\* C19: every impact of a digest sent for a subscriber has a likelihood at
\* or above the subscriber's threshold, and every impact at or above the
\* threshold of a listed analysis that is selected by the watermark and
\* parses is among the impacts collected for the subscriber; no collected
\* impact is below the threshold.
C19_ThresholdFilter ==
    /\ \A d \in digests : \A m \in 1..Len(d.impacts) :
          d.impacts[m].likelihood >= d.threshold
    /\ (npc = "loop" /\ idx > 1) =>
          LET subscriber == subscribers[idx - 1]
          IN  /\ \A m \in 1..Len(relevant) :
                    relevant[m].likelihood >= subscriber.threshold
              /\ \A n \in 1..Len(analysis_files) :
                    LET key == analysis_files[n]
                    IN  (Selected(subscriber.last_sent, key) /\ docs[key].json) =>
                          \A j \in 1..Len(docs[key].potential_impacts) :
                             docs[key].potential_impacts[j].likelihood
                                 >= subscriber.threshold
                             => Offered(key, docs[key].potential_impacts[j])

\* a digest with an impact exactly at the subscriber's threshold, taken
\* from an analysis that also has an impact below the threshold
C19_Witness ==
    \E d \in digests : \E m \in 1..Len(d.impacts) :
        /\ d.impacts[m].likelihood = d.threshold
        /\ \E j \in 1..Len(docs[d.impacts[m].file_timestamp].potential_impacts) :
              docs[d.impacts[m].file_timestamp].potential_impacts[j].likelihood
                  < d.threshold

\* C20: no step of the notification process removes a subscriber record or
\* lowers its last_sent.
C20_LastSentMonotonic ==
    [][ \A i \in DOMAIN subs :
          /\ i \in DOMAIN subs'
          /\ subs'[i].last_sent >= subs[i].last_sent ]_vars

\* a subscriber whose last_sent was moved twice
C20_Witness ==
    \E i \in DOMAIN subs : \E d \in digests :
        /\ d.email = subs[i].email
        /\ d.time > 0
        /\ d.time < subs[i].last_sent

\* C21: two digests are never sent to the same subscriber (a subscriber
\* with one record in the store) less than the subscriber's frequency (in
\* hours) apart.
C21_RateLimit ==
    \A i \in DOMAIN subs : \A d1, d2 \in digests :
        (UniqueEmail(i) /\ d1 # d2 /\ d1.email = subs[i].email
                        /\ d2.email = subs[i].email /\ d1.time <= d2.time)
        => d2.time - d1.time >= subs[i].frequency * EmailGateSec * TicksPerSec

(***************************************************************************)
(* app.py: the subscribe and unsubscribe endpoints, served by threads,     *)
(* beside update_last_sent of cron_job.py. Each reads subscribers.json and *)
(* later writes the whole file.                                            *)
(***************************************************************************)
\* the locals of the ingestion process before it runs
InitIngestIdle ==
    /\ now = StartTime
    /\ cycle = 0
    /\ cur = 0
    /\ end_floor = 0
    /\ attempt = 0
    /\ resp = 0
    /\ exc = "none"
    /\ blob = None
    /\ lines = <<>>
    /\ articles = <<>>
    /\ cache = <<>>
    /\ net = <<>>
    /\ calls = 0
    /\ getlog = <<>>
    /\ response_text = <<>>
    /\ feeds = <<>>
    /\ docs = <<>>
    /\ errors = {}
    /\ last_email = 0
    /\ mails = {}

\* what the form posts: the emails, and the thresholds as integers
Emails == {"a", "b"}
Thresholds == {5, 11}

\* a request of the web application is between its read and its write
WebCallUnderWay ==
    \E r \in DOMAIN reqs : reqs[r].op # "update" /\ reqs[r].pc = "write"

\* a call on the store: what it is for, the list it has read, and whether it
\* is a web request that started while another one was under way
Call(op, email, threshold, snapshot) ==
    [op |-> op, email |-> email, threshold |-> threshold, timestamp |-> now,
     pc |-> "write", snapshot |-> snapshot,
     overlaps |-> (op # "update" /\ WebCallUnderWay)]

\* the call has returned
Done(call) == [call EXCEPT !.pc = "done", !.snapshot = <<>>]

\* subscribe, save_subscriber: get_subscribers()
SubscribeRead(email, threshold) ==
    /\ Len(reqs) < MaxReqs
    /\ reqs' = Append(reqs, Call("subscribe", email, threshold, subs))
    /\ UNCHANGED <<subs, wanted>>

\* save_subscriber: append and json.dump
SubscribeWrite(r) ==
    /\ reqs[r].op = "subscribe"
    /\ reqs[r].pc = "write"
    /\ subs' = Append(reqs[r].snapshot,
                      [email |-> reqs[r].email, threshold |-> reqs[r].threshold,
                       frequency |-> 1, last_sent |-> 0])
    /\ wanted' = wanted \cup {reqs[r].email}
    /\ reqs' = [reqs EXCEPT ![r] = Done(reqs[r])]

\* unsubscribe, remove_subscriber: get_subscribers()
UnsubscribeRead(email) ==
    /\ Len(reqs) < MaxReqs
    /\ reqs' = Append(reqs, Call("unsubscribe", email, 0, subs))
    /\ UNCHANGED <<subs, wanted>>

\* remove_subscriber: the file is written when a record was removed
UnsubscribeWrite(r) ==
    /\ reqs[r].op = "unsubscribe"
    /\ reqs[r].pc = "write"
    /\ LET kept == SelectSeq(reqs[r].snapshot,
                             LAMBDA sub : LowerChar(sub.email) # LowerChar(reqs[r].email))
       IN  subs' = IF Len(kept) < Len(reqs[r].snapshot) THEN kept ELSE subs
    /\ wanted' = wanted \ {reqs[r].email}
    /\ reqs' = [reqs EXCEPT ![r] = Done(reqs[r])]

\* cron_job.py update_last_sent, called for a subscriber main has loaded:
\* get_subscribers()
UpdateRead(email) ==
    /\ Len(reqs) < MaxReqs
    /\ \E i \in DOMAIN subs : subs[i].email = email
    /\ reqs' = Append(reqs, Call("update", email, 0, subs))
    /\ UNCHANGED <<subs, wanted>>

\* update_last_sent: the loop and json.dump
UpdateWrite(r) ==
    /\ reqs[r].op = "update"
    /\ reqs[r].pc = "write"
    /\ subs' = [i \in DOMAIN reqs[r].snapshot |->
                   IF reqs[r].snapshot[i].email = reqs[r].email
                   THEN [reqs[r].snapshot[i] EXCEPT !.last_sent = reqs[r].timestamp]
                   ELSE reqs[r].snapshot[i]]
    /\ reqs' = [reqs EXCEPT ![r] = Done(reqs[r])]
    /\ UNCHANGED wanted

InitStore ==
    /\ InitIngestIdle
    /\ ipc = "off"
    /\ subs = << Subscriber("a", 5) >>
    /\ wanted = {"a"}
    /\ reqs = <<>>
    /\ npc = "off"
    /\ ncycle = 0
    /\ analysis_files = <<>>
    /\ subscribers = <<>>
    /\ idx = 0
    /\ current_time = 0
    /\ relevant = <<>>
    /\ digests = {}
    /\ start_utc = 0
    /\ end_utc = 0
    /\ yielded = <<>>

NextStore ==
    /\ \/ \E email \in Emails, threshold \in Thresholds : SubscribeRead(email, threshold)
       \/ \E r \in DOMAIN reqs : SubscribeWrite(r)
       \/ \E email \in Emails : UnsubscribeRead(email)
       \/ \E r \in DOMAIN reqs : UnsubscribeWrite(r)
       \/ \E email \in Emails : UpdateRead(email)
       \/ \E r \in DOMAIN reqs : UpdateWrite(r)
    /\ UNCHANGED <<now, ingestLocals, cache, scoreState, history, windowVars>>
    /\ UNCHANGED <<npc, ncycle, analysis_files, subscribers, idx, current_time,
                   relevant, digests>>

SpecStore == InitStore /\ [][NextStore]_vars

\* C22: no two records of the store have the same email.
C22_EmailIsUnique ==
    \A i, j \in DOMAIN subs : subs[i].email = subs[j].email => i = j

\* C23: every record of the store has a threshold in 1..10.
C23_ThresholdInRange ==
    \A i \in DOMAIN subs : subs[i].threshold \in 1..10

\* C29: when the web requests came one after the other, interleaved in any
\* way with update_last_sent, and no call on the store is under way, the
\* emails of the store are the emails that were subscribed and not
\* unsubscribed since: no subscribed record is lost and no unsubscribed
\* record is back.
C29_StoreMatchesRequests ==
    (\A r \in DOMAIN reqs : reqs[r].pc = "done" /\ ~reqs[r].overlaps)
    => {subs[i].email : i \in DOMAIN subs} = wanted

(***************************************************************************)
(* The relevance filter and the lines of a partition.                      *)
(***************************************************************************)
\* query_gdelt is about to look at a record
AtRecord == ipc = "lines" /\ lines # <<>> /\ Head(lines).kind = "record"

\* a keyword occurs in the text, whatever the letter case of either
OccursAnyCase(text, keyword) == Contains(Lower(text), Lower(keyword))

\* C24: a record becomes a candidate exactly when its language is the target
\* language and a configured keyword occurs, whatever the letter case of the
\* keyword and of the text, in its title or in its concatenated excerpts.
C24_RelevanceFilter ==
    [][AtRecord =>
         LET record == Head(lines)
             wanted_in == /\ record.lang = "ENGLISH"
                          /\ \E k \in 1..Len(KEYWORDS) :
                                \/ OccursAnyCase(record.title, KEYWORDS[k])
                                \/ OccursAnyCase(QuotesText(record), KEYWORDS[k])
         IN  articles' = IF wanted_in THEN Append(articles, Article(record))
                         ELSE articles]_vars

\* C25: a record whose language is not the target language never becomes a
\* candidate, whatever its title holds.
C25_OtherLanguageNeverCandidate ==
    [][(AtRecord /\ Head(lines).lang # "ENGLISH") => articles' = articles]_vars

\* the French record, whose title holds every keyword, has been passed over
C25_Witness ==
    /\ ipc = "lines"
    /\ lines = SubSeq(PayloadClean, 4, Len(PayloadClean))
    /\ \A k \in 1..Len(KEYWORDS) : OccursAnyCase(FrenchRecord.title, KEYWORDS[k])
    /\ \A i \in DOMAIN articles : articles[i].url # FrenchRecord.url

\* C26: a line that is not JSON is skipped: the records before it stay, and
\* the reading goes on with the line after it.
C26_MalformedLineIsSkipped ==
    [][(ipc = "lines" /\ lines # <<>> /\ Head(lines) = Malformed)
          => (ipc' = "lines" /\ lines' = Tail(lines) /\ articles' = articles)]_vars

(***************************************************************************)
(* _minute_stamps on its own, called with any two instants and read to its *)
(* end by a for loop.                                                      *)
(***************************************************************************)
TicksPerMin == SecPerMin * TicksPerSec

\* instants of the minutes around the end of an hour: the start of a minute,
\* just after it, and just before the next one
Instants ==
    {(SecPerMin - 2 + m) * TicksPerMin + o :
        m \in 0..MaxSpan, o \in {0, 1, TicksPerMin - 1}}

\* cur.strftime("%Y%m%d%H%M%S"): the hour and the minute, the most
\* significant field first
strftime(minute) == <<minute \div SecPerMin, minute % SecPerMin>>

\* the order of two stamps as strings
StampBefore(s, t) == s[1] < t[1] \/ (s[1] = t[1] /\ s[2] < t[2])

\* replace(second=0, microsecond=0) of both arguments
EnterStamps ==
    /\ ipc = "call"
    /\ cur' = MinuteOf(start_utc)
    /\ end_floor' = MinuteOf(end_utc)
    /\ ipc' = "stamps"
    /\ UNCHANGED <<now, cycle, attempt, resp, exc, blob, lines, articles,
                   response_text, feeds, cache, scoreState, notifyVars, yielded>>

\* yield cur.strftime(...); cur += timedelta(minutes=1)
TakeStamp ==
    /\ ipc = "get"
    /\ yielded' = Append(yielded, strftime(cur))
    /\ cur' = cur + 1
    /\ ipc' = "stamps"
    /\ UNCHANGED <<now, cycle, end_floor, attempt, resp, exc, blob, lines,
                   articles, response_text, feeds, cache, scoreState, notifyVars>>

InitStamps ==
    /\ InitIngestIdle
    /\ InitNotifyIdle
    /\ ipc = "call"
    /\ start_utc \in Instants
    /\ end_utc \in Instants
    /\ yielded = <<>>
    /\ reqs = <<>>
    /\ wanted = {}

NextStamps ==
    \/ EnterStamps /\ UNCHANGED <<history, webVars, start_utc, end_utc>>
    \/ NextStamp /\ UNCHANGED <<history, webVars, windowVars>>
    \/ TakeStamp /\ UNCHANGED <<history, webVars, start_utc, end_utc>>

\* the for loop over the generator runs to its end
SpecStamps == InitStamps /\ [][NextStamps]_vars /\ WF_vars(NextStamps)

\* the stamps of floor(start) .. floor(end), none when floor(start) is later
WindowStamps ==
    LET first == MinuteOf(start_utc)
        last == MinuteOf(end_utc)
    IN  [i \in 1..(IF first > last THEN 0 ELSE last - first + 1) |->
            strftime(first + i - 1)]

\* C27: the window iterator yields the minute-truncated stamps from
\* floor(start) to floor(end), both included, in strictly increasing order and
\* nothing else: minutes-between plus one of them, none when floor(start) is
\* later than floor(end); and it terminates.
C27_WindowStamps ==
    /\ [](/\ Len(yielded) <= Len(WindowStamps)
          /\ yielded = SubSeq(WindowStamps, 1, Len(yielded))
          /\ \A i, j \in DOMAIN yielded : i < j => StampBefore(yielded[i], yielded[j])
          /\ ipc = "filtered" => yielded = WindowStamps)
    /\ <>(ipc = "filtered")

\* a window that starts and ends inside a minute, in different hours, has
\* been read to its end
C27_Witness ==
    /\ ipc = "filtered"
    /\ start_utc % TicksPerMin # 0
    /\ end_utc % TicksPerMin # 0
    /\ Len(yielded) = MaxSpan + 1
    /\ yielded[1][1] # yielded[Len(yielded)][1]

(***************************************************************************)
(* The ingestion process is terminated while _download_gz writes a cache   *)
(* entry, and is started again.                                            *)
(***************************************************************************)
\* what the file holds when the process ends between open(cache_path, 'wb')
\* and the end of f.write: nothing, or the start of the stream
Partials(payload) == {<<>>, <<payload[1], Truncated>>}

\* the process ends inside "with open(cache_path, 'wb') as f: f.write(...)"
KillDuringWrite(payload) ==
    /\ ipc = "request"
    /\ \E partial \in Partials(payload) : cache' = (cur :> partial) @@ cache
    /\ ipc' = "killed"
    /\ cur' = 0
    /\ end_floor' = 0
    /\ attempt' = 0
    /\ resp' = 0
    /\ exc' = "none"
    /\ blob' = None
    /\ lines' = <<>>
    /\ articles' = <<>>
    /\ response_text' = <<>>
    /\ feeds' = <<>>
    /\ UNCHANGED <<now, cycle, scoreState, notifyVars>>

\* python gdelt.py again
Restart ==
    /\ ipc = "killed"
    /\ ipc' = "main"
    /\ UNCHANGED <<now, cycle, cur, end_floor, attempt, resp, exc, blob, lines,
                   articles, response_text, feeds, cache, scoreState, notifyVars>>

NextKill ==
    /\ \/ StartCycle
       \/ Fetch
       \/ Reason
       \/ Sleep
       \/ \E payload \in Payloads : KillDuringWrite(payload)
       \/ Restart
    /\ UNCHANGED <<history, webVars, windowVars>>

SpecKill == Init /\ [][NextKill]_vars

\* C30: whenever the process is terminated, every cache entry holds a
\* complete payload: a fetch that was interrupted has left no entry, so the
\* stamp is requested again.
C30_CacheEntriesComplete ==
    \A stamp \in DOMAIN cache : cache[stamp] \in Payloads

(***************************************************************************)
(* One ingestion cycle and the notification loop side by side, against a   *)
(* feed of three partitions, a reasoning service that answers "yes, 1" and *)
(* then one impact, and a mail service that accepts every digest.          *)
(***************************************************************************)
ScenarioTitle ==
    <<"T","a","r","i","f","f"," ","h","i","k","e"," ","s","h","a","k","e","s",
      " ","m","a","r","k","e","t","s">>

ScenarioRecord(lang, url, date) ==
    [kind |-> "record", lang |-> lang, title |-> ScenarioTitle,
     quotes |-> <<>>, url |-> url, date |-> date]

\* the partitions of the feed, oldest first; the newest minute of the window
\* is not published yet
Partitions ==
    << <<ScenarioRecord("ENGLISH", "u1", 1)>>,
       <<ScenarioRecord("GERMAN", "u3", 1)>>,
       <<ScenarioRecord("ENGLISH", "u2", 2)>> >>

\* the place of the stamp in the window of the cycle
PartitionOf(stamp) == stamp - (end_floor - ScenarioMinutes) + 1

StartScenario ==
    /\ cycle = 0
    /\ query_gdelt(ScenarioMinutes)

ServePartition ==
    /\ PartitionOf(cur) \in DOMAIN Partitions
    /\ Respond200(Partitions[PartitionOf(cur)])

ServeNotPublished ==
    /\ PartitionOf(cur) \notin DOMAIN Partitions
    /\ Respond404

InitScenario ==
    /\ InitIngestIdle
    /\ ipc = "main"
    /\ subs = << Subscriber("a", HighLikelihood) >>
    /\ npc = "idle"
    /\ ncycle = 0
    /\ analysis_files = <<>>
    /\ subscribers = <<>>
    /\ idx = 0
    /\ current_time = 0
    /\ relevant = <<>>
    /\ digests = {}
    /\ reqs = <<>>
    /\ wanted = {}
    /\ start_utc = 0
    /\ end_utc = 0
    /\ yielded = <<>>

NextScenario ==
    /\ \/ StartScenario
       \/ NextStamp
       \/ Lookup
       \/ ServePartition
       \/ ServeNotPublished
       \/ OpenBlob
       \/ ReadLine
       \/ Scored
       \/ Reply1(<<"yes", "1">>)
       \/ \E mail_ok \in BOOLEAN : Reply2(AnalysisHigh, mail_ok)
       \/ Sleep
       \/ Glob
       \/ Load
       \/ Process(TRUE)
       \/ EndLoop
       \/ NotifySleep
    /\ UNCHANGED <<history, webVars, windowVars>>

SpecScenario == InitScenario /\ [][NextScenario]_vars

\* the digests that hold an impact of the ticker
DigestsWith(ticker) ==
    {d \in digests : \E i \in 1..Len(d.impacts) : d.impacts[i].ticker = ticker}

\* C28: in the scenario two candidates are produced, one analysis document is
\* stored, and the subscriber with threshold 8 and last_sent 0 gets one
\* digest, which holds AAPL, over the notification cycles that follow, with
\* last_sent set to the time of the send.
C28_Scenario ==
    /\ ipc = "filtered" => Len(articles) = 2
    /\ ipc \in {"await1", "await2"} => Len(feeds) = 2
    /\ Cardinality(DOMAIN docs) <= 1
    /\ (cycle = 1 /\ ipc \in {"sleep", "main"}) => Cardinality(DOMAIN docs) = 1
    /\ Cardinality(digests) <= 1
    /\ digests = DigestsWith("AAPL")
    /\ \A d \in digests : d.email = "a" /\ subs[1].last_sent = d.time
    /\ digests = {} => subs[1].last_sent = 0
    /\ (analysis_files # <<>> /\ npc \in {"sleep", "idle"}) => Cardinality(digests) = 1

\* the digest was sent in one notification cycle and a later cycle, which
\* listed the document again, has sent nothing more
C28_Witness ==
    /\ Cardinality(digests) = 1
    /\ Cardinality(DOMAIN docs) = 1
    /\ npc = "sleep"
    /\ analysis_files # <<>>
    /\ \A d \in digests : d.time < current_time /\ subs[1].last_sent = d.time

(***************************************************************************)
(* The blocks of the phase-2 prompt on the full-text path.                 *)
(***************************************************************************)
\* the phase-1 selection behind the phase-2 request that is waiting
Selection == relevant_feeds(response_text, feeds)

\* the length of the prompt with the first k blocks of the selection
LengthWith(k) ==
    prompt_base2 + Chars([i \in 1..k |-> [chars |-> PartLen(Selection[i])]])

\* C31: on the full-text path the blocks of the phase-2 prompt are the
\* longest prefix of the phase-1 selection that fits the budget: the first
\* block that does not fit and every block after it are left out, also a
\* later block that would still fit.
C31_LongestFittingPrefix ==
    (ipc = "await2" /\ HasYes(response_text)) =>
        LET n == Len(prompt2.parts)
        IN  /\ n <= Len(Selection)
            /\ \A i \in 1..n : /\ prompt2.parts[i].id = Selection[i].id
                               /\ prompt2.parts[i].chars = PartLen(Selection[i])
            /\ LengthWith(n) <= max_length
            /\ n < Len(Selection) => LengthWith(n + 1) > max_length

\* a block is in the prompt, the next one did not fit, and the one after
\* it, which would fit, is left out
C31_Witness ==
    /\ ipc = "await2"
    /\ HasYes(response_text)
    /\ Len(prompt2.parts) >= 1
    /\ Len(prompt2.parts) + 2 <= Len(Selection)
    /\ prompt2.length + PartLen(Selection[Len(prompt2.parts) + 2]) <= max_length

\* C34: no article has more than one block in the phase-2 prompt, also when
\* the phase-1 response names its id several times.
C34_OneBlockPerArticle ==
    (ipc = "await2" /\ HasYes(response_text)) =>
        \A i, j \in 1..Len(prompt2.parts) :
            prompt2.parts[i].id = prompt2.parts[j].id => i = j

(***************************************************************************)
(* The retry loop of _download_gz.                                         *)
(***************************************************************************)
\* C32: on a cache miss one get makes at most retries + 1 requests, ends
\* at the first response with status 200 or 404, and waits only after an
\* attempt that another attempt follows, never after the last one.
C32_BoundedRetry ==
    /\ [](/\ attempt <= retries
          /\ calls <= retries + 1
          /\ \A stamp \in DOMAIN getlog : \A i \in 1..Len(getlog[stamp]) :
                getlog[stamp][i].calls <= retries + 1)
    /\ [][/\ (ipc = "request" /\ resp' \in {200, 404}) => ipc' = "blob"
          /\ (ipc' = "backoff" /\ ipc # "backoff") =>
                (ipc = "request" /\ attempt < retries /\ resp' \notin {200, 404})
          /\ ipc = "backoff" => (ipc' = "request" /\ attempt' <= retries)]_vars

\* a get whose first two attempts were answered with another status and
\* whose last attempt brought the payload
C32_Witness ==
    \E stamp \in DOMAIN getlog : \E i \in 1..Len(getlog[stamp]) :
        /\ getlog[stamp][i].calls = retries + 1
        /\ getlog[stamp][i].result = "payload"

(***************************************************************************)
(* The subscribers of one notification cycle.                              *)
(***************************************************************************)
\* a pass of the for loop over a subscriber
SubscriberStep == npc = "loop" /\ idx <= Len(subscribers) /\ idx' # idx

\* C33: a subscriber whose processing raises or whose digest is not
\* delivered leaves every stored last_sent as it is and the for loop goes on
\* with the next subscriber; and no step of the loop changes the last_sent
\* of a record with another email.
C33_SubscribersIndependent ==
    [][SubscriberStep =>
         /\ digests' = digests => (subs' = subs /\ idx' = idx + 1 /\ npc' = "loop")
         /\ \A i \in DOMAIN subs :
               subs[i].email # subscribers[idx].email => subs'[i] = subs[i]]_vars

\* the first subscriber of the cycle had impacts to get and got no digest,
\* and the second one got the digest of the cycle
C33_Witness ==
    /\ npc = "loop"
    /\ Len(subscribers) = 2
    /\ idx = 3
    /\ subscribers[1].email # subscribers[2].email
    /\ collect_alert_impacts(subscribers[1], analysis_files) # <<>>
    /\ \A d \in digests : ~(d.email = subscribers[1].email /\ d.time = current_time)
    /\ \E d \in digests : d.email = subscribers[2].email /\ d.time = current_time
    /\ subs[1].last_sent = subscribers[1].last_sent

(***************************************************************************)
(* The single-recipient alert of the ingestion cycle.                      *)
(***************************************************************************)
\* C35: the alert of process_analysis is sent at most once for an analysis,
\* only for an analysis with an impact of likelihood 8 or more, never less
\* than 3600 seconds after the last alert that was sent, and the last-email
\* time moves only with an alert that was sent, to the time of that alert.
C35_AlertGate ==
    /\ [](/\ \A t1, t2 \in mails :
                t1 < t2 => t2 - t1 >= EmailGateSec * TicksPerSec
          /\ Cardinality(mails) <= Cardinality(DOMAIN docs)
          /\ \A t \in mails : /\ IntTime(t) \in DOMAIN docs
                              /\ HasHighImpact(docs[IntTime(t)])
          /\ mails # {} => last_email \in mails
          /\ mails = {} => last_email = 0)
    /\ [][(mails' # mails \/ last_email' # last_email) =>
             /\ ipc = "await2"
             /\ now - last_email >= EmailGateSec * TicksPerSec
             /\ now \notin mails
             /\ mails' = mails \cup {now}
             /\ last_email' = now
             /\ docs' # docs]_vars

\* an alert was sent for the analysis of the first cycle, and the analysis
\* of the second cycle, half an hour later and with an impact of likelihood
\* 9, brought none
C35_Witness ==
    /\ Cardinality(DOMAIN docs) = 2
    /\ \A key \in DOMAIN docs : HasHighImpact(docs[key])
    /\ Cardinality(mails) = 1
    /\ now - last_email < EmailGateSec * TicksPerSec
    /\ last_email \in mails

====
